---- MODULE Spec2Model ----
(***************************************************************************)
(* SmartApply: scrape -> dedupe -> embed -> match.                         *)
(*                                                                         *)
(* The state machines of this module, each over its own variables:         *)
(*   SpecScrape     : app/scraper.py, scrape_all_jobs and the two          *)
(*                    scrapers' fetch_jobs loops, one action per loop      *)
(*                    iteration.                                           *)
(*   SpecMatch      : app/matcher.py, match_all_users and                  *)
(*                    match_jobs_for_user against the tables of            *)
(*                    app/models.py, one action per candidate.             *)
(*   SpecStored     : the same, on a store that may hold a job without     *)
(*                    embedding.                                           *)
(*   SpecFetchPage  : GoZambiaScraper._fetch_page, one action per card.    *)
(*   SpecSimilarity : JobMatcher.compute_similarity in binary64.           *)
(*   SpecPipeline   : app/main.py, one request POST /run_pipeline with the *)
(*                    alert step of app/email_sender.py.                   *)
(*   SpecRuns       : requests one after the other on the same store.      *)
(*   SpecPacing     : the requests and sleeps of one scraper's fetch_jobs. *)
(* Each specification leaves the other machines' variables untouched.      *)
(***************************************************************************)
EXTENDS Integers, Sequences, FiniteSets, Bags, TLC

VARIABLES
    \* ---- scrape_all_jobs ----
    spc,          \* position in scrape_all_jobs
    maxPages,     \* max_pages_per_source
    page,         \* GoZambiaScraper.fetch_jobs: loop variable `page`
    gozJobs,      \* GoZambiaScraper.fetch_jobs: all_jobs
    gzjJobs,      \* GreatZambiaJobsScraper.fetch_jobs: all_jobs
    nextPage,     \* GreatZambiaJobsScraper.fetch_jobs: next_page
    pageCount,    \* GreatZambiaJobsScraper.fetch_jobs: page_count
    fetchLog,     \* every HTTP request for a listing page, in order
    finalJobs,    \* scrape_all_jobs: final_jobs (the return value)
    \* ---- matcher and store ----
    cvEmbeddings, \* table cv_embeddings (committed rows)
    jobsTable,    \* table jobs (committed rows)
    jobAlerts,    \* table job_alerts (committed rows)
    txJobs,       \* rows of jobs flushed in the open transaction
    txAlerts,     \* rows of job_alerts added in the open transaction
    mpc,          \* position in match_all_users / match_jobs_for_user
    mode,         \* "all": inside match_all_users, "single": direct call
    pendingUsers, \* match_all_users: users not yet iterated
    allMatches,   \* match_all_users: all_matches
    userId,       \* match_jobs_for_user: user_id
    jobs,         \* match_jobs_for_user: jobs (the candidates)
    idx,          \* match_jobs_for_user: index of the next job_data
    cvEmbedding,  \* match_jobs_for_user: cv_embedding
    existingJobIds, \* match_jobs_for_user: existing_job_ids
    matches,      \* match_jobs_for_user: matches
    ret,          \* return value of the last match_jobs_for_user call
    outcome,      \* "none" | "returned" | "raised" for the last top-level call
    exc,          \* the exception that ended it, when it raised
    calls,        \* embedding-provider calls of the running top-level call
    \* ---- GoZambiaScraper._fetch_page, taken alone ----
    fpc,          \* position in _fetch_page
    job_cards,    \* _fetch_page: job_cards
    cardIdx,      \* _fetch_page: index of the next card
    pageJobs,     \* _fetch_page: jobs
    \* ---- JobMatcher.compute_similarity, taken alone ----
    cpc,          \* position: "idle" | "returned" | "compared"
    vec1,         \* compute_similarity: vec1
    vec2,         \* compute_similarity: vec2
    simValue,     \* the value compute_similarity returned
    isMatch,      \* similarity >= self.similarity_threshold
    \* ---- run_pipeline and EmailSender.send_alerts_for_matches ----
    ppc,          \* position in run_pipeline
    response,     \* the PipelineResponse, or the HTTP error
    emailQueue,   \* send_alerts_for_matches: users of matches not yet iterated
    emailsSent,   \* send_alerts_for_matches: emails_sent
    sendLog,      \* result of send_job_alert per user, in this alert step
    alertsBefore, \* job_alerts as the alert step found it
    alertsAtCall, \* job_alerts as the request found it
    \* ---- fetch_jobs of one scraper, its requests and sleeps ----
    tpc,          \* position in fetch_jobs
    tMaxPages,    \* fetch_jobs: max_pages
    tPage,        \* GoZambiaScraper.fetch_jobs: loop variable `page`
    tNextPage,    \* GreatZambiaJobsScraper.fetch_jobs: next_page is truthy
    tPageCount,   \* GreatZambiaJobsScraper.fetch_jobs: page_count
    timeline      \* session.get and time.sleep calls of the run, in order

scrapeVars == <<spc, maxPages, page, gozJobs, gzjJobs, nextPage, pageCount,
                fetchLog, finalJobs>>
storeVars == <<cvEmbeddings, jobsTable, jobAlerts>>
matchVars == <<cvEmbeddings, jobsTable, jobAlerts, txJobs, txAlerts, mpc, mode,
               pendingUsers, allMatches, userId, jobs, idx, cvEmbedding,
               existingJobIds, matches, ret, outcome, exc, calls>>
fetchVars == <<fpc, job_cards, cardIdx, pageJobs>>
simVars == <<cpc, vec1, vec2, simValue, isMatch>>
pipeVars == <<ppc, response, emailQueue, emailsSent, sendLog, alertsBefore,
              alertsAtCall>>
paceVars == <<tpc, tMaxPages, tPage, tNextPage, tPageCount, timeline>>
vars == <<scrapeVars, matchVars, fetchVars, simVars, pipeVars, paceVars>>
\* what an action of one part leaves alone
outsideScrape == <<matchVars, fetchVars, simVars, pipeVars, paceVars>>
outsideMatch == <<scrapeVars, fetchVars, simVars, pipeVars, paceVars>>
outsideFetch == <<scrapeVars, matchVars, simVars, pipeVars, paceVars>>
outsideSim == <<scrapeVars, matchVars, fetchVars, pipeVars, paceVars>>
outsidePace == <<scrapeVars, matchVars, fetchVars, simVars, pipeVars>>

(***************************************************************************)
(* Python values                                                           *)
(***************************************************************************)
\* Optional[str]: None is the empty tuple, a string s is <<s>>.
None == <<>>
Some(s) == <<s>>
\* Python truthiness of an Optional[str]: None and '' are falsy.
Truthy(u) == u # None /\ u[1] # ""

(***************************************************************************)
(* scraper.py: the deduplication step of scrape_all_jobs                   *)
(***************************************************************************)
\* the dict key of one record
DedupKey(job) ==
    IF Truthy(job.url) THEN job.url[1]
    ELSE job.title \o "_" \o job.company

\* The loop `for job in all_jobs: unique_jobs[key] = job` and
\* list(unique_jobs.values()). A Python dict keeps a key at the place of its
\* first assignment and holds the value of its last assignment, so the
\* result lists, in the order of the keys' first occurrences, the last record
\* assigned under each key.
UniqueJobValues(all_jobs) ==
    LET n == Len(all_jobs)
        key(i) == DedupKey(all_jobs[i])
        isFirst(i) == \A j \in 1..(i - 1) : key(j) # key(i)
        lastOf(i) == CHOOSE j \in i..n :
                        /\ key(j) = key(i)
                        /\ \A m \in (j + 1)..n : key(m) # key(i)
        firsts == SelectSeq([i \in 1..n |-> i], isFirst)
    IN  [r \in 1..Len(firsts) |-> all_jobs[lastOf(firsts[r])]]

\* Variant: a deduplication that throws away every record whose key occurs
\* more than once, instead of keeping one of them.
DedupDropRepeated(all_jobs) ==
    LET once(job) == Cardinality({i \in 1..Len(all_jobs) :
                        DedupKey(all_jobs[i]) = DedupKey(job)}) = 1
    IN  SelectSeq(all_jobs, once)

\* lines 467-477 of scrape_all_jobs: all_jobs -> final_jobs
Dedup(all_jobs) == UniqueJobValues(all_jobs)

\* Variant: the second source's list assigned to all_jobs, not appended.
FlattenSecondOnly(goz, gzj) == gzj
\* all_jobs after both extend() calls
Flatten(goz, gzj) == goz \o gzj

Urls(js) == {js[i].url : i \in 1..Len(js)}

(***************************************************************************)
(* scraper.py: the sites, as far as the scrapers can tell them apart       *)
(***************************************************************************)
\* `if len(jobs) < 20` in GoZambiaScraper.fetch_jobs
FULL_PAGE == 20
\* largest max_pages a run is started with
MaxPagesBound == 2

Job(t, c, u, s) == [title |-> t, company |-> c, url |-> u, source |-> s]

\* GoZambiaScraper.BASE_URL ("https://www.gozambia.com", written short)
BASE_URL == "u"
\* GreatZambiaJobsScraper.BASE_URL
GZJ_BASE_URL == "w"
\* an href urllib cannot split: urljoin raises ValueError (invalid IPv6 URL)
BadHref == "//["
\* urljoin(base, url) for the hrefs of the model, which are absolute paths:
\* the joined URL, or the exception
urljoin(base, url) ==
    IF url = BadHref THEN [ok |-> FALSE, url |-> ""]
    ELSE [ok |-> TRUE, url |-> base \o url]

\* A div.job-listing as _parse_job_card sees it: whether it has an
\* h3.job-title, whether that holds a link, the text of the title, the href
\* of the link and the text of div.job-company (None: no such element).
Card(h3, a, t, h, c) ==
    [title_elem |-> h3, link |-> a, text |-> t, href |-> h, company |-> c]

\* GoZambiaScraper._parse_job_card: None for a card without title element
\* and for a card on which parsing raises, else the record.
parse_job_card(card) ==
    IF ~card.title_elem THEN None
    ELSE LET relative_url == IF card.link THEN card.href ELSE None
             joined == IF Truthy(relative_url)
                       THEN urljoin(BASE_URL, relative_url[1])
                       ELSE [ok |-> TRUE, url |-> ""]
             full_url == IF Truthy(relative_url) THEN Some(joined.url) ELSE None
             company == IF card.company # None THEN card.company[1] ELSE "Unknown"
         IN  IF ~joined.ok THEN None
             ELSE Some(Job(card.text, company, full_url, "gozambia"))

\* Variant: `jobs.append(job)` without `if job`; the None of a dropped card
\* is appended as an empty record.
AppendParsedAlways(js, parsed) ==
    Append(js, IF parsed = None THEN Job("", "", None, "") ELSE parsed[1])
\* _fetch_page, lines 65-66: `if job: jobs.append(job)`
AppendParsed(js, parsed) ==
    IF parsed = None THEN js ELSE Append(js, parsed[1])

\* GoZambiaScraper._fetch_page after the request: the loop over job_cards
RECURSIVE ParseCards(_, _)
ParseCards(cs, js) ==
    IF cs = <<>> THEN js
    ELSE ParseCards(Tail(cs), AppendParsed(js, parse_job_card(Head(cs))))

\* Cards of the GoZambia listing pages: with link, without link (the record
\* has url None), without title element, with an href urljoin rejects.
c1 == Card(TRUE, TRUE, "t", Some("/1"), Some("b"))
c2 == Card(TRUE, FALSE, "u/1", None, Some("b"))
c3 == Card(TRUE, TRUE, "t", Some("/1_b"), Some("c"))
cNoTitle == Card(FALSE, FALSE, "", None, Some("b"))
cBadHref == Card(TRUE, TRUE, "t", Some(BadHref), Some("b"))

\* A div/tr container as _parse_job_container sees it: the text of the title
\* element (None: no title element), the href of its link (None: no link),
\* the company the text names (None: none).
Container(t, h, c) == [title |-> t, href |-> h, company |-> c]
\* titles of the model in which "apply" occurs
ApplyTitles == {"Apply now"}
\* `len(title) < 3`
MIN_TITLE == 3
\* absolute URLs of the model: url.startswith('http')
HttpUrls == {"u/1", "u/2"}

\* GreatZambiaJobsScraper._parse_job_container
parse_job_container(container) ==
    IF container.title = None THEN None
    ELSE LET title == container.title[1]
             href == container.href
             relative == Truthy(href) /\ href[1] \notin HttpUrls
             joined == IF relative THEN urljoin(GZJ_BASE_URL, href[1])
                       ELSE [ok |-> TRUE, url |-> ""]
             url == IF relative THEN Some(joined.url) ELSE href
             company == IF container.company # None THEN container.company[1]
                        ELSE "Unknown"
         IN  IF Len(title) < MIN_TITLE \/ title \in ApplyTitles THEN None
             ELSE IF ~joined.ok THEN None
             ELSE Some(Job(title, company, url, "greatzambiajobs"))

\* GreatZambiaJobsScraper._fetch_page, lines 194-200: the loop over
\* job_containers, `if job and job not in jobs`
RECURSIVE ParseContainers(_, _)
ParseContainers(cs, js) ==
    IF cs = <<>> THEN js
    ELSE LET job == parse_job_container(Head(cs))
         IN  ParseContainers(Tail(cs),
                 IF job # None /\ \A i \in 1..Len(js) : js[i] # job[1]
                 THEN Append(js, job[1]) ELSE js)

\* Containers of the GreatZambiaJobs listing pages: the href is absolute, ''
\* or missing; a title of fewer than 3 characters or with "apply" is no job.
k1 == Container(Some("zed"), Some("u/1"), Some("b"))
k2 == Container(Some("zed"), Some(""), Some("c"))
k3 == Container(Some("zed"), Some("u/2"), Some("c"))
kApply == Container(Some("Apply now"), Some("u/2"), None)

\* a page of FULL_PAGE cards: r everywhere, s last
FullPage(r, s) == [i \in 1..FULL_PAGE |-> IF i = FULL_PAGE THEN s ELSE r]

\* The job_cards of the GoZambia listing pages of the model.
GozCardPages == {<<>>, <<c1>>, <<c2, c3>>, <<c3, cNoTitle, c2, c1>>,
                 <<cBadHref, c1>>, FullPage(c1, c1), FullPage(c1, c3)}
\* What GoZambiaScraper._fetch_page can return for one page.
GozPages == {ParseCards(cs, <<>>) : cs \in GozCardPages}
\* The job_containers of the GreatZambiaJobs listing pages of the model:
\* pages on which the first method finds the jobs, and a page on which no
\* method finds any.
GzjContainerPages == {<<>>, <<k1>>, <<k2, k3>>, <<k3, kApply, k1, k3>>}
\* What GreatZambiaJobsScraper._fetch_page can return.
GzjPages == {ParseContainers(cs, <<>>) : cs \in GzjContainerPages}
\* Listing pages of GreatZambiaJobs a next-page link can point to.
GzjUrls == {"/jobs/", "/jobs/?page=2"}
JOBS_URL == "/jobs/"

\* One HTTP request for a listing page: it raises, or the page is parsed.
Raises == [ok |-> FALSE, jobs |-> <<>>]
Parsed(js) == [ok |-> TRUE, jobs |-> js]
GozFetches == {Raises} \cup {Parsed(p) : p \in GozPages}
GzjFetches == {Raises} \cup {Parsed(p) : p \in GzjPages}
\* _get_next_page: the request fails (None), or the page has no next link
\* (None), or it has one.
NextLookups == {[ok |-> FALSE, next |-> None], [ok |-> TRUE, next |-> None]}
               \cup {[ok |-> TRUE, next |-> Some(u)] : u \in GzjUrls}

LogEntry(s, k, p, ok) == [src |-> s, kind |-> k, page |-> p, ok |-> ok]

(***************************************************************************)
(* scraper.py: scrape_all_jobs, one action per loop iteration              *)
(***************************************************************************)
Sources == {"gozambia", "greatzambiajobs"}

ScrapeInit ==
    /\ spc = "idle"
    /\ maxPages = [s \in Sources |-> 0]
    /\ page = 1
    /\ gozJobs = <<>>
    /\ gzjJobs = <<>>
    /\ nextPage = None
    /\ pageCount = 0
    /\ fetchLog = <<>>
    /\ finalJobs = <<>>

\* scrape_all_jobs is entered with some max_pages_per_source.
StartScrape ==
    /\ spc = "idle"
    /\ maxPages' \in [Sources -> 0..MaxPagesBound]
    /\ spc' = "gozambia"
    /\ UNCHANGED <<page, gozJobs, gzjJobs, nextPage, pageCount, fetchLog,
                   finalJobs>>

\* scrape_all_jobs(max_pages_per_source) is called.
ScrapeAllJobs ==
    /\ StartScrape
    /\ UNCHANGED outsideScrape

\* GoZambiaScraper.fetch_jobs: one iteration of `for page in range(1,
\* max_pages + 1)`. An exception of _fetch_page is caught and the loop
\* continues with the next page; a page of fewer than 20 jobs ends the loop.
GoZambiaFetchPage ==
    /\ spc = "gozambia"
    /\ page <= maxPages["gozambia"]
    /\ \E f \in GozFetches :
          /\ fetchLog' = Append(fetchLog, LogEntry("gozambia", "page", page, f.ok))
          /\ IF ~f.ok
             THEN /\ page' = page + 1
                  /\ UNCHANGED <<gozJobs, spc>>
             ELSE /\ gozJobs' = gozJobs \o f.jobs
                  /\ IF Len(f.jobs) < FULL_PAGE
                     THEN spc' = "greatzambiajobs" /\ page' = page
                     ELSE spc' = spc /\ page' = page + 1
    /\ UNCHANGED <<maxPages, gzjJobs, nextPage, pageCount, finalJobs>>
    /\ UNCHANGED outsideScrape

\* GoZambiaScraper.fetch_jobs: the range is exhausted, return all_jobs.
GoZambiaReturn ==
    /\ spc = "gozambia"
    /\ page > maxPages["gozambia"]
    /\ spc' = "greatzambiajobs"
    /\ UNCHANGED <<maxPages, page, gozJobs, gzjJobs, nextPage, pageCount,
                   fetchLog, finalJobs>>
    /\ UNCHANGED outsideScrape

\* GreatZambiaJobsScraper.fetch_jobs up to the while loop: the first page,
\* then the lookup of its next link. An exception of _fetch_page leaves the
\* try block and all_jobs is returned as it is.
GreatZambiaFirstPage ==
    /\ spc = "greatzambiajobs"
    /\ \E f \in GzjFetches, n \in NextLookups :
          IF ~f.ok
          THEN /\ fetchLog' = Append(fetchLog,
                      LogEntry("greatzambiajobs", "page", 1, FALSE))
               /\ spc' = "dedup"
               /\ UNCHANGED <<gzjJobs, nextPage, pageCount>>
          ELSE /\ fetchLog' = fetchLog \o
                      << LogEntry("greatzambiajobs", "page", 1, TRUE),
                         LogEntry("greatzambiajobs", "next", 1, n.ok) >>
               /\ gzjJobs' = gzjJobs \o f.jobs
               /\ nextPage' = n.next
               /\ pageCount' = 1
               /\ spc' = "greatzambiajobs_loop"
    /\ UNCHANGED <<maxPages, page, gozJobs, finalJobs>>
    /\ UNCHANGED outsideScrape

\* GreatZambiaJobsScraper.fetch_jobs: one iteration of
\* `while next_page and page_count < max_pages`.
GreatZambiaNextPage ==
    /\ spc = "greatzambiajobs_loop"
    /\ Truthy(nextPage)
    /\ pageCount < maxPages["greatzambiajobs"]
    /\ \E f \in GzjFetches, n \in NextLookups :
          IF ~f.ok
          THEN /\ fetchLog' = Append(fetchLog,
                      LogEntry("greatzambiajobs", "page", pageCount + 1, FALSE))
               /\ spc' = "dedup"
               /\ UNCHANGED <<gzjJobs, nextPage, pageCount>>
          ELSE /\ fetchLog' = fetchLog \o
                      << LogEntry("greatzambiajobs", "page", pageCount + 1, TRUE),
                         LogEntry("greatzambiajobs", "next", pageCount + 1, n.ok) >>
               /\ gzjJobs' = gzjJobs \o f.jobs
               /\ nextPage' = n.next
               /\ pageCount' = pageCount + 1
               /\ spc' = spc
    /\ UNCHANGED <<maxPages, page, gozJobs, finalJobs>>
    /\ UNCHANGED outsideScrape

\* GreatZambiaJobsScraper.fetch_jobs: the while condition is false.
GreatZambiaReturn ==
    /\ spc = "greatzambiajobs_loop"
    /\ ~(Truthy(nextPage) /\ pageCount < maxPages["greatzambiajobs"])
    /\ spc' = "dedup"
    /\ UNCHANGED <<maxPages, page, gozJobs, gzjJobs, nextPage, pageCount,
                   fetchLog, finalJobs>>
    /\ UNCHANGED outsideScrape

\* scrape_all_jobs: both lists are in all_jobs; remove duplicates, return.
DedupAndReturn ==
    /\ spc = "dedup"
    /\ finalJobs' = Dedup(Flatten(gozJobs, gzjJobs))
    /\ spc' = "done"
    /\ UNCHANGED <<maxPages, page, gozJobs, gzjJobs, nextPage, pageCount,
                   fetchLog>>
    /\ UNCHANGED outsideScrape

ScrapeNext ==
    \/ ScrapeAllJobs
    \/ GoZambiaFetchPage
    \/ GoZambiaReturn
    \/ GreatZambiaFirstPage
    \/ GreatZambiaNextPage
    \/ GreatZambiaReturn
    \/ DedupAndReturn

(***************************************************************************)
(* scraper.py: GoZambiaScraper._fetch_page taken alone, one action per     *)
(* card of the page                                                        *)
(***************************************************************************)
GozCards == {c1, c2, c3, cNoTitle, cBadHref}
\* most cards on a page handed to _fetch_page taken alone
MaxCards == 5
CardPages == UNION {[1..n -> GozCards] : n \in 0..MaxCards}

FetchInit ==
    /\ fpc = "idle"
    /\ job_cards = <<>>
    /\ cardIdx = 0
    /\ pageJobs = <<>>

\* _fetch_page(page) up to the loop: the request raises (raise_for_status),
\* or the page is there and find_all gives its cards.
CallFetchPage ==
    /\ fpc = "idle"
    /\ \/ /\ fpc' = "raised"
          /\ UNCHANGED <<job_cards, cardIdx, pageJobs>>
       \/ /\ job_cards' \in CardPages
          /\ cardIdx' = 1
          /\ pageJobs' = <<>>
          /\ fpc' = "loop"
    /\ UNCHANGED outsideFetch

\* one iteration of `for card in job_cards`
FetchPageCard ==
    /\ fpc = "loop"
    /\ cardIdx <= Len(job_cards)
    /\ pageJobs' = AppendParsed(pageJobs, parse_job_card(job_cards[cardIdx]))
    /\ cardIdx' = cardIdx + 1
    /\ UNCHANGED <<fpc, job_cards>>
    /\ UNCHANGED outsideFetch

\* `return jobs`
FetchPageReturn ==
    /\ fpc = "loop"
    /\ cardIdx > Len(job_cards)
    /\ fpc' = "done"
    /\ UNCHANGED <<job_cards, cardIdx, pageJobs>>
    /\ UNCHANGED outsideFetch

FetchNext ==
    \/ CallFetchPage
    \/ FetchPageCard
    \/ FetchPageReturn

(***************************************************************************)
(* models.py: the rows the matcher reads and writes                        *)
(***************************************************************************)
\* Table users (the matcher never writes it): id -> cv_text.
\* Users 1 and 2 have CV text, user 3 has cv_text NULL, user 4 has ''.
Users == (1 :> Some("cv")) @@ (2 :> Some("cv")) @@ (3 :> None) @@ (4 :> Some(""))
\* user ids a caller may pass: the rows of users and an id without a row
CallerIds == DOMAIN Users \cup {0}

\* Embeddings the provider can return. A stored embedding is kept as the
\* vector itself: json.loads(json.dumps(v)) = v for a list of floats.
Vectors == {<<1, 0, 0, 0>>, <<0, 1, 0, 0>>, <<7, 7, 1, 1>>}
\* One call of the embedding provider: it raises, or returns a vector.
EmbedOutcomes == {[ok |-> FALSE, vec |-> <<>>]}
                 \cup {[ok |-> TRUE, vec |-> v] : v \in Vectors}

\* job_data['url'] of the candidates a caller may pass
CandidateUrls == {Some("u/1"), Some("u/2"), None}
\* longest candidate list
MaxCandidates == 2
CandidateLists ==
    UNION {[1..n -> {[url |-> u] : u \in CandidateUrls}] : n \in 0..MaxCandidates}

\* Variant: job_alerts without the constraint.
NoUniqueUserJob(rows) == TRUE
\* JobAlert.__table_args__: UniqueConstraint('user_id', 'job_id'), as a
\* predicate on the bag of job_alerts rows an insert would give.
UniqueUserJob(rows) ==
    \A r1, r2 \in BagToSet(rows) :
        (r1.user_id = r2.user_id /\ r1.job_id = r2.job_id)
            => (r1 = r2 /\ CopiesIn(r1, rows) = 1)

\* Job.url: nullable=False
UrlNotNull(url) == url # None

(***************************************************************************)
(* IEEE 754 binary64 arithmetic, as numpy and Python floats compute.        *)
(* A natural number is the sequence of its digits in base LIMB, least       *)
(* significant first, without leading zeros. A float is [neg, sig, exp]     *)
(* with value sig * 2^exp, sig a natural of MANT_DIG bits (0.0 has sig      *)
(* <<>>). Every operation rounds the exact result to the nearest float,    *)
(* ties to even. The values of the model stay far from overflow and from    *)
(* the subnormal range.                                                     *)
(***************************************************************************)
\* sys.float_info.mant_dig of the float compute_similarity returns
MANT_DIG == 53
\* bits per digit of a natural
LIMB_BITS == 15
LIMB == 2 ^ LIMB_BITS
\* a natural number of any size: its digits in base LIMB, lowest first
Big == Seq(0..(LIMB - 1))
\* quotient and remainder
QuoRem == [q : Big, r : Big]
\* root and remainder
RootRem == [p : Big, r : Big]

Digits[n \in Nat] ==
    IF n = 0 THEN <<>> ELSE <<n % LIMB>> \o Digits[n \div LIMB]

\* without the zero digits at the top
Trim[b \in Big] ==
    IF b = <<>> THEN <<>>
    ELSE IF b[Len(b)] = 0 THEN Trim[SubSeq(b, 1, Len(b) - 1)]
    ELSE b

Zeros(k) == [i \in 1..k |-> 0]
Rest(b) == IF b = <<>> THEN <<>> ELSE Tail(b)
Low(b) == IF b = <<>> THEN 0 ELSE b[1]

AddCarry[a \in Big, b \in Big, c \in 0..1] ==
    IF a = <<>> /\ b = <<>> THEN (IF c = 0 THEN <<>> ELSE <<c>>)
    ELSE <<(Low(a) + Low(b) + c) % LIMB>>
         \o AddCarry[Rest(a), Rest(b), (Low(a) + Low(b) + c) \div LIMB]
BAdd[a \in Big, b \in Big] == AddCarry[a, b, 0]

\* a - b for a >= b
SubBorrow[a \in Big, b \in Big, w \in 0..1] ==
    IF a = <<>> THEN <<>>
    ELSE <<(LIMB + a[1] - Low(b) - w) % LIMB>>
         \o SubBorrow[Tail(a), Rest(b),
                      IF LIMB + a[1] - Low(b) - w < LIMB THEN 1 ELSE 0]
BSub[a \in Big, b \in Big] == Trim[SubBorrow[a, b, 0]]

\* a >= b, for a and b without zero digits at the top
BGeq[a \in Big, b \in Big] ==
    IF Len(a) # Len(b) THEN Len(a) > Len(b)
    ELSE \A i \in 1..Len(a) :
            a[i] < b[i] => \E j \in (i + 1)..Len(a) : a[j] > b[j]

\* a * x + c for digits x and c
MulCarry[a \in Big, x \in 0..(LIMB - 1), c \in 0..(LIMB - 1)] ==
    IF a = <<>> THEN (IF c = 0 THEN <<>> ELSE <<c>>)
    ELSE <<(a[1] * x + c) % LIMB>>
         \o MulCarry[Tail(a), x, (a[1] * x + c) \div LIMB]
BMulDigit[a \in Big, x \in 0..(LIMB - 1)] == Trim[MulCarry[a, x, 0]]

\* a * LIMB
Shift[a \in Big] == IF a = <<>> THEN <<>> ELSE <<0>> \o a
BMul[a \in Big, b \in Big] ==
    IF b = <<>> \/ a = <<>> THEN <<>>
    ELSE BAdd[BMulDigit[a, b[1]], Shift[BMul[a, Tail(b)]]]

\* 2^k
BPow2[k \in Nat] == Zeros(k \div LIMB_BITS) \o <<2 ^ (k % LIMB_BITS)>>

\* number of bits of a
BitLen[a \in Big] ==
    IF a = <<>> THEN 0
    ELSE LIMB_BITS * (Len(a) - 1)
         + CHOOSE j \in 1..LIMB_BITS : 2 ^ (j - 1) <= a[Len(a)] /\ a[Len(a)] < 2 ^ j

\* found, with the bit added when den * (found + bit) <= rem
DivBit[den \in Big, rem \in Big, found \in Nat, bit \in Nat] ==
    IF BGeq[rem, BMulDigit[den, found + bit]] THEN found + bit ELSE found
\* the largest digit y with den * y <= rem, found bit by bit: the bits j and
\* above of y
DivDigit[den \in Big, rem \in Big, j \in Nat] ==
    IF j >= LIMB_BITS THEN 0
    ELSE DivBit[den, rem, DivDigit[den, rem, j + 1], 2 ^ j]

\* long division, the step for one more digit below: st is the quotient and
\* remainder of the digits above
DivStep[d \in Big, digit \in Nat, st \in QuoRem] ==
    LET r2 == Trim[<<digit>> \o st.r]
        y == DivDigit[d, r2, 0]
    IN  [q |-> <<y>> \o st.q, r |-> BSub[r2, BMulDigit[d, y]]]
\* quotient and remainder of the number made of the digits i..Len(n) of n
DivFrom[n \in Big, d \in Big, i \in Nat] ==
    IF i > Len(n) THEN [q |-> <<>>, r |-> <<>>]
    ELSE DivStep[d, n[i], DivFrom[n, d, i + 1]]
TrimQuo[st \in QuoRem] == [q |-> Trim[st.q], r |-> st.r]
BDivMod[n \in Big, d \in Big] == TrimQuo[DivFrom[n, d, 1]]

\* found, with the bit added when (p2 * LIMB + found + bit) * (found + bit) <= rem
SqrtBit[p2 \in Big, rem \in Big, found \in Nat, bit \in Nat] ==
    IF BGeq[rem, BMulDigit[Trim[<<found + bit>> \o p2], found + bit]]
    THEN found + bit
    ELSE found
\* the largest digit y with (p2 * LIMB + y) * y <= rem
SqrtDigit[p2 \in Big, rem \in Big, j \in Nat] ==
    IF j >= LIMB_BITS THEN 0
    ELSE SqrtBit[p2, rem, SqrtDigit[p2, rem, j + 1], 2 ^ j]

\* integer square root, the step for one more pair of digits below: st is
\* the root and remainder of the pairs above
SqrtStep[lo \in Nat, hi \in Nat, st \in RootRem] ==
    LET r2 == Trim[<<lo, hi>> \o st.r]
        p2 == BAdd[st.p, st.p]
        y == SqrtDigit[p2, r2, 0]
    IN  [p |-> Trim[<<y>> \o st.p],
         r |-> BSub[r2, BMulDigit[Trim[<<y>> \o p2], y]]]
\* root and remainder of the number made of the digit pairs i.. of n
SqrtFrom[n \in Big, i \in Nat] ==
    IF 2 * i > Len(n) THEN [p |-> <<>>, r |-> <<>>]
    ELSE SqrtStep[n[2 * i - 1], n[2 * i], SqrtFrom[n, i + 1]]
BSqrtRem[n \in Big] == SqrtFrom[IF Len(n) % 2 = 0 THEN n ELSE n \o <<0>>, 1]

\* a float: (-1)^neg * sig * 2^exp with sig of MANT_DIG bits, or zero
Floats == [neg : BOOLEAN, sig : Big, exp : Int]
FZero == [neg |-> FALSE, sig |-> <<>>, exp |-> 0]

\* m * 2^e for m of at most MANT_DIG + 1 bits, as a float
Normal[neg \in BOOLEAN, m \in Big, e \in Int] ==
    IF BitLen[m] > MANT_DIG
    THEN [neg |-> neg, sig |-> BPow2[MANT_DIG - 1], exp |-> e + 1]
    ELSE [neg |-> neg, sig |-> m, exp |-> e]
\* (qr.q + qr.r / (2 * half)) * 2^e, rounded to nearest, ties to even
RoundOff[neg \in BOOLEAN, qr \in QuoRem, half \in Big, sticky \in BOOLEAN, e \in Int] ==
    IF /\ BGeq[qr.r, half]
       /\ (qr.r # half \/ sticky \/ qr.q[1] % 2 = 1)
    THEN Normal[neg, BAdd[qr.q, <<1>>], e]
    ELSE Normal[neg, qr.q, e]
\* the float nearest to n * 2^e (plus a fraction of the last bit of n when
\* sticky), ties to even; n has at least MANT_DIG + 2 bits when sticky
FRound[neg \in BOOLEAN, n \in Big, sticky \in BOOLEAN, e \in Int] ==
    LET k == BitLen[n] - MANT_DIG
    IN  IF n = <<>> THEN FZero
        ELSE IF k <= 0
        THEN [neg |-> neg, sig |-> BMul[n, BPow2[-k]], exp |-> e + k]
        ELSE RoundOff[neg, BDivMod[n, BPow2[k]], BPow2[k - 1], sticky, e + k]

\* float(n) for an integer n
FInt[n \in Int] == FRound[n < 0, Digits[IF n < 0 THEN -n ELSE n], FALSE, 0]

\* x * y
FMul[x \in Floats, y \in Floats] ==
    IF x.sig = <<>> \/ y.sig = <<>> THEN FZero
    ELSE FRound[x.neg # y.neg, BMul[x.sig, y.sig], FALSE, x.exp + y.exp]

\* the float nearest to (qr.q + a fraction when qr.r # 0) * 2^e
Inexact[neg \in BOOLEAN, qr \in QuoRem, e \in Int] ==
    FRound[neg, qr.q, qr.r # <<>>, e]
\* x / y for y # 0
FDiv[x \in Floats, y \in Floats] ==
    IF x.sig = <<>> THEN FZero
    ELSE Inexact[x.neg # y.neg,
                 BDivMod[BMul[x.sig, BPow2[MANT_DIG + 2]], y.sig],
                 x.exp - y.exp - (MANT_DIG + 2)]

\* the float nearest to (pr.p + a fraction when pr.r # 0) * 2^e
InexactRoot[pr \in RootRem, e \in Int] == FRound[FALSE, pr.p, pr.r # <<>>, e]
\* sqrt(x) for x >= 0; the significand is scaled so that the exponent is even
FSqrt[x \in Floats] ==
    IF x.sig = <<>> THEN FZero
    ELSE LET k == IF x.exp % 2 = 0 THEN MANT_DIG + 3 ELSE MANT_DIG + 4
         IN  InexactRoot[BSqrtRem[BMul[x.sig, BPow2[k]]], (x.exp - k) \div 2]

\* |x| >= |y|
MagGeq[x \in Floats, y \in Floats] ==
    \/ y.sig = <<>>
    \/ /\ x.sig # <<>>
       /\ \/ x.exp > y.exp
          \/ x.exp = y.exp /\ BGeq[x.sig, y.sig]
\* x >= y
FGeq[x \in Floats, y \in Floats] ==
    IF x.sig = <<>> /\ y.sig = <<>> THEN TRUE
    ELSE IF x.neg # y.neg THEN y.neg
    ELSE IF x.neg THEN MagGeq[y, x]
    ELSE MagGeq[x, y]

(***************************************************************************)
(* matcher.py: JobMatcher                                                  *)
(***************************************************************************)
\* self.similarity_threshold = 0.7: the float nearest to 7/10
THRESHOLD_NUM == 7
THRESHOLD_DEN == 10
similarity_threshold == FDiv[FInt[THRESHOLD_NUM], FInt[THRESHOLD_DEN]]

\* np.dot of two vectors of equal length. The components of the model are
\* small integers, so every product and partial sum is exact in binary64.
RECURSIVE DotUpTo(_, _, _)
DotUpTo(a, b, i) == IF i = 0 THEN 0 ELSE a[i] * b[i] + DotUpTo(a, b, i - 1)
Dot(a, b) == DotUpTo(a, b, Len(a))

\* np.linalg.norm: sqrt of the sum of squares
Norm(v) == FSqrt[FInt[Dot(v, v)]]

\* dot_product / (norm1 * norm2), each operation rounded
Cosine[dot_product \in Int, norm1 \in Floats, norm2 \in Floats] ==
    IF norm1 = FZero \/ norm2 = FZero THEN FZero
    ELSE FDiv[FInt[dot_product], FMul[norm1, norm2]]
\* compute_similarity: 0.0 when a norm is zero, else the cosine
compute_similarity(embedding1, embedding2) ==
    Cosine[Dot(embedding1, embedding2), Norm(embedding1), Norm(embedding2)]

\* compute_similarity on the embeddings the provider can return, computed
\* once: the value of line 120 for each pair
SimilarityOf == [a \in Vectors |-> [b \in Vectors |-> compute_similarity(a, b)]]

\* Variant: `similarity > self.similarity_threshold`.
AboveThreshold(similarity) ==
    FGeq[similarity, similarity_threshold] /\ similarity # similarity_threshold
\* similarity >= self.similarity_threshold
AtLeastThreshold(similarity) == FGeq[similarity, similarity_threshold]

\* Variant: only `not user`.
NoCvTextUserOnly(user_id) == user_id \notin DOMAIN Users
\* `not user or not user.cv_text`
NoCvText(user_id) == user_id \notin DOMAIN Users \/ ~Truthy(Users[user_id])

\* Variant: no job is ever taken as alerted.
NeverAlerted(existing, ids) == FALSE
\* `existing_job and existing_job.id in existing_job_ids`
AlreadyAlerted(existing, ids) == existing # {} /\ \A j \in existing : j.id \in ids

\* Variant: a row without embedding is given the first vector.
LoadEmbeddingOrDefault(existing_job) ==
    IF existing_job.embedding = None THEN Some(<<1, 0, 0, 0>>)
    ELSE existing_job.embedding
\* `json.loads(existing_job.embedding) if existing_job.embedding else None`
LoadEmbedding(existing_job) == existing_job.embedding

\* Variant: the query finds no row.
CvRowsNone(u) == {}
\* db.query(CVEmbedding).filter(CVEmbedding.user_id == user_id)
CvRows(u) == {r \in cvEmbeddings : r.user_id = u}

\* rows of jobs the session sees
VisibleJobs == jobsTable \cup txJobs
\* the autoincrement id of the next row of jobs
NextJobId == IF VisibleJobs = {} THEN 1
             ELSE 1 + CHOOSE m \in {j.id : j \in VisibleJobs} :
                         \A j \in VisibleJobs : j.id <= m

CvCall(u, ok) == [kind |-> "cv", user |-> u, url |-> None, ok |-> ok]
JobCall(u, url, ok) == [kind |-> "job", user |-> u, url |-> url, ok |-> ok]

\* all_matches[user.id] = matches
Put(f, k, v) == [x \in DOMAIN f \cup {k} |-> IF x = k THEN v ELSE f[x]]

MatchInit ==
    /\ cvEmbeddings = {}
    /\ jobsTable = {}
    /\ jobAlerts = EmptyBag
    /\ txJobs = {}
    /\ txAlerts = EmptyBag
    /\ mpc = "idle"
    /\ mode = "single"
    /\ pendingUsers = {}
    /\ allMatches = <<>>
    /\ userId = 0
    /\ jobs = <<>>
    /\ idx = 1
    /\ cvEmbedding = <<>>
    /\ existingJobIds = {}
    /\ matches = <<>>
    /\ ret = <<>>
    /\ outcome = "none"
    /\ exc = "none"
    /\ calls = <<>>

\* match_jobs_for_user returns m: to its caller match_all_users, which files
\* a non-empty list under the user, or to the direct caller.
Return(u, md, m) ==
    /\ ret' = m
    /\ IF md = "all"
       THEN /\ mpc' = "users"
            /\ allMatches' = IF m # <<>> THEN Put(allMatches, u, m) ELSE allMatches
            /\ outcome' = "none"
       ELSE /\ mpc' = "done"
            /\ allMatches' = <<>>
            /\ outcome' = "returned"
    /\ exc' = "none"

\* Variant: the rows of the open transaction stay pending.
RaiseNoRollback(e) ==
    /\ mpc' = "done"
    /\ outcome' = "raised"
    /\ exc' = e
    /\ ret' = <<>>
    /\ allMatches' = <<>>
    /\ UNCHANGED <<txJobs, txAlerts>>
\* An exception leaves match_jobs_for_user, and match_all_users with it:
\* nothing is returned and the open transaction is rolled back.
Raise(e) ==
    /\ mpc' = "done"
    /\ outcome' = "raised"
    /\ exc' = e
    /\ ret' = <<>>
    /\ allMatches' = <<>>
    /\ txJobs' = {}
    /\ txAlerts' = EmptyBag

\* match_jobs_for_user reaches `for job_data in jobs`.
EnterLoop(md) ==
    /\ mpc' = "loop"
    /\ ret' = <<>>
    /\ outcome' = "none"
    /\ exc' = "none"
    /\ allMatches' = IF md = "all" THEN allMatches ELSE <<>>

\* match_jobs_for_user up to the loop (lines 56-84) for user u.
Begin(u, md) ==
    /\ userId' = u
    /\ idx' = 1
    /\ matches' = <<>>
    /\ IF NoCvText(u)
       THEN /\ Return(u, md, <<>>)
            /\ cvEmbedding' = <<>>
            /\ existingJobIds' = {}
            /\ UNCHANGED <<cvEmbeddings, jobsTable, jobAlerts, txJobs, txAlerts>>
            /\ calls' = IF md = "all" THEN calls ELSE <<>>
       ELSE LET rows == CvRows(u)
                base == IF md = "all" THEN calls ELSE <<>>
                ids  == {a.job_id : a \in {r \in BagToSet(jobAlerts) : r.user_id = u}}
            IN  IF rows = {}
                THEN \E e \in EmbedOutcomes :
                       /\ calls' = Append(base, CvCall(u, e.ok))
                       /\ IF ~e.ok
                          THEN /\ Raise("EmbeddingError")
                               /\ cvEmbedding' = <<>>
                               /\ existingJobIds' = {}
                               /\ UNCHANGED <<cvEmbeddings, jobsTable, jobAlerts>>
                          ELSE /\ cvEmbeddings' = cvEmbeddings \cup
                                      {[user_id |-> u, embedding |-> e.vec]}
                               /\ cvEmbedding' = e.vec
                               /\ existingJobIds' = ids
                               /\ EnterLoop(md)
                               /\ UNCHANGED <<jobsTable, jobAlerts, txJobs, txAlerts>>
                ELSE /\ cvEmbedding' = (CHOOSE r \in rows : TRUE).embedding
                     /\ existingJobIds' = ids
                     /\ calls' = base
                     /\ EnterLoop(md)
                     /\ UNCHANGED <<cvEmbeddings, jobsTable, jobAlerts, txJobs,
                                    txAlerts>>

\* Lines 119-131: score the job and, at or above the threshold, append the
\* match and add its alert. The insert of a second row for (user, job)
\* violates unique_user_job: the next flush (the query of the next iteration,
\* or the commit) raises IntegrityError, before anything else is observable.
Score(job_data, job_id, job_embedding_list) ==
    LET similarity == SimilarityOf[cvEmbedding][job_embedding_list]
        alert == [user_id |-> userId, job_id |-> job_id,
                  match_score |-> similarity, email_sent |-> FALSE,
                  sent_at |-> None]
    IN  IF AtLeastThreshold(similarity)
        THEN /\ matches' = Append(matches,
                                  [job |-> job_data, score |-> similarity])
             /\ IF UniqueUserJob(jobAlerts (+) txAlerts (+) SetToBag({alert}))
                THEN /\ txAlerts' = txAlerts (+) SetToBag({alert})
                     /\ idx' = idx + 1
                     /\ UNCHANGED <<mpc, ret, outcome, exc, allMatches>>
                ELSE /\ Raise("IntegrityError")
                     /\ idx' = idx
        ELSE /\ idx' = idx + 1
             /\ UNCHANGED <<matches, txAlerts, mpc, ret, outcome, exc, allMatches>>

\* One iteration of `for job_data in jobs` (lines 85-131).
MatchCandidate ==
    /\ mpc = "loop"
    /\ idx <= Len(jobs)
    /\ LET job_data == jobs[idx]
           existing == {j \in VisibleJobs : j.url = job_data.url}
       IN  IF AlreadyAlerted(existing, existingJobIds)
           THEN /\ idx' = idx + 1
                /\ UNCHANGED <<txJobs, txAlerts, matches, calls, mpc, ret,
                               outcome, exc, allMatches>>
           ELSE IF existing = {}
           THEN \E e \in EmbedOutcomes :
                  /\ calls' = Append(calls, JobCall(userId, job_data.url, e.ok))
                  /\ IF ~e.ok
                     THEN /\ Raise("EmbeddingError")
                          /\ UNCHANGED <<matches, idx>>
                     ELSE IF ~UrlNotNull(job_data.url)
                     THEN /\ Raise("IntegrityError")
                          /\ UNCHANGED <<matches, idx>>
                     ELSE /\ txJobs' = txJobs \cup
                                {[id |-> NextJobId, url |-> job_data.url,
                                  embedding |-> Some(e.vec)]}
                          /\ Score(job_data, NextJobId, e.vec)
           ELSE LET existing_job == CHOOSE j \in existing : TRUE
                    job_embedding_list == LoadEmbedding(existing_job)
                IN  /\ calls' = calls
                    /\ txJobs' = txJobs
                    /\ IF job_embedding_list # None
                       THEN Score(job_data, existing_job.id,
                                  job_embedding_list[1])
                       ELSE /\ idx' = idx + 1
                            /\ UNCHANGED <<txAlerts, matches, mpc, ret, outcome,
                                           exc, allMatches>>
    /\ UNCHANGED <<cvEmbeddings, jobsTable, jobAlerts, mode, pendingUsers,
                   userId, jobs, cvEmbedding, existingJobIds>>
    /\ UNCHANGED outsideMatch

\* The loop is over: db.commit() and `return matches` (lines 133-134).
MatchCommit ==
    /\ mpc = "loop"
    /\ idx > Len(jobs)
    /\ jobsTable' = jobsTable \cup txJobs
    /\ jobAlerts' = jobAlerts (+) txAlerts
    /\ txJobs' = {}
    /\ txAlerts' = EmptyBag
    /\ Return(userId, mode, matches)
    /\ UNCHANGED <<cvEmbeddings, mode, pendingUsers, userId, jobs, idx,
                   cvEmbedding, existingJobIds, matches, calls>>
    /\ UNCHANGED outsideMatch

\* A direct call match_jobs_for_user(db, user_id, jobs).
CallMatchJobsForUser ==
    /\ mpc = "idle"
    /\ \E u \in CallerIds, js \in CandidateLists :
          /\ mode' = "single"
          /\ jobs' = js
          /\ pendingUsers' = {}
          /\ Begin(u, "single")
    /\ UNCHANGED outsideMatch

\* match_all_users(db, js) is entered: the users whose cv_text is not NULL.
StartMatchAllUsers(js) ==
    /\ mpc = "idle"
    /\ mode' = "all"
    /\ jobs' = js
    /\ pendingUsers' = {u \in DOMAIN Users : Users[u] # None}
    /\ allMatches' = <<>>
    /\ mpc' = "users"
    /\ calls' = <<>>
    /\ ret' = <<>>
    /\ outcome' = "none"
    /\ exc' = "none"
    /\ UNCHANGED <<cvEmbeddings, jobsTable, jobAlerts, txJobs, txAlerts, userId,
                   idx, cvEmbedding, existingJobIds, matches>>

\* A call match_all_users(db, jobs).
CallMatchAllUsers ==
    /\ \E js \in CandidateLists : StartMatchAllUsers(js)
    /\ UNCHANGED outsideMatch

\* match_all_users: `for user in users`, the next user's pass begins.
NextUser ==
    /\ mpc = "users"
    /\ pendingUsers # {}
    /\ \E u \in pendingUsers :
          /\ pendingUsers' = pendingUsers \ {u}
          /\ Begin(u, "all")
    /\ UNCHANGED <<mode, jobs>>
    /\ UNCHANGED outsideMatch

\* match_all_users: `return all_matches`.
ReturnAllMatches ==
    /\ mpc = "users"
    /\ pendingUsers = {}
    /\ mpc' = "done"
    /\ outcome' = "returned"
    /\ UNCHANGED <<cvEmbeddings, jobsTable, jobAlerts, txJobs, txAlerts, mode,
                   pendingUsers, allMatches, userId, jobs, idx, cvEmbedding,
                   existingJobIds, matches, ret, exc, calls>>
    /\ UNCHANGED outsideMatch

\* the frame of the call is gone, the store stays
MatchFrameGone ==
    /\ mpc = "done"
    /\ mpc' = "idle"
    /\ mode' = "single"
    /\ pendingUsers' = {}
    /\ allMatches' = <<>>
    /\ userId' = 0
    /\ jobs' = <<>>
    /\ idx' = 1
    /\ cvEmbedding' = <<>>
    /\ existingJobIds' = {}
    /\ matches' = <<>>
    /\ ret' = <<>>
    /\ outcome' = "none"
    /\ exc' = "none"
    /\ calls' = <<>>
    /\ UNCHANGED <<cvEmbeddings, jobsTable, jobAlerts, txJobs, txAlerts>>

\* The caller has taken the result (or the exception).
CallOver ==
    /\ MatchFrameGone
    /\ UNCHANGED outsideMatch

MatchNext ==
    \/ CallOver
    \/ CallMatchJobsForUser
    \/ CallMatchAllUsers
    \/ NextUser
    \/ MatchCandidate
    \/ MatchCommit
    \/ ReturnAllMatches

(***************************************************************************)
(* matcher.py: compute_similarity called on its own                        *)
(***************************************************************************)
\* largest component of an embedding passed to compute_similarity
MaxCoord == 2
\* the embeddings a caller passes: two components each, -1..MaxCoord
SimVectors == {<<x, y>> : x, y \in -1..MaxCoord}

\* compute_similarity(embedding1, embedding2) is called and returns.
CallComputeSimilarity ==
    /\ cpc = "idle"
    /\ \E a, b \in SimVectors :
          /\ vec1' = a
          /\ vec2' = b
          /\ simValue' = compute_similarity(a, b)
    /\ cpc' = "returned"
    /\ UNCHANGED isMatch
    /\ UNCHANGED outsideSim

\* The caller's test of the returned value (line 121).
CompareWithThreshold ==
    /\ cpc = "returned"
    /\ isMatch' = AtLeastThreshold(simValue)
    /\ cpc' = "compared"
    /\ UNCHANGED <<vec1, vec2, simValue>>
    /\ UNCHANGED outsideSim

\* The caller is done with the value.
SimilarityOver ==
    /\ cpc = "compared"
    /\ cpc' = "idle"
    /\ vec1' = <<>>
    /\ vec2' = <<>>
    /\ simValue' = <<>>
    /\ isMatch' = FALSE
    /\ UNCHANGED outsideSim

SimNext ==
    \/ CallComputeSimilarity
    \/ CompareWithThreshold
    \/ SimilarityOver

(***************************************************************************)
(* main.py: run_pipeline, and email_sender.py: send_alerts_for_matches     *)
(***************************************************************************)
\* a scraped record as match_jobs_for_user reads it: job_data['url']
JobData(js) == [i \in 1..Len(js) |-> [url |-> js[i].url]]

RECURSIVE SumOver(_, _)
SumOver(f, ks) ==
    IF ks = {} THEN 0
    ELSE LET k == CHOOSE x \in ks : TRUE
         IN  Len(f[k]) + SumOver(f, ks \ {k})
\* sum(len(user_matches) for user_matches in matches.values())
TotalMatches(ms) == SumOver(ms, DOMAIN ms)

\* schemas.PipelineResponse(status="completed", ...)
Completed(fetched, found, sent) ==
    [status |-> "completed", jobs_fetched |-> fetched, matches_found |-> found,
     emails_sent |-> sent]
\* HTTPException(status_code=500)
Http500 ==
    [status |-> "http500", jobs_fetched |-> 0, matches_found |-> 0,
     emails_sent |-> 0]

\* Variant: the test never holds.
NoJobsNever(js) == FALSE
\* `if not jobs`
NoJobs(js) == js = <<>>

\* the frame of scrape_all_jobs is gone once it has returned
ScrapeFrameGone ==
    /\ spc' = "idle"
    /\ maxPages' = [s \in Sources |-> 0]
    /\ page' = 1
    /\ gozJobs' = <<>>
    /\ gzjJobs' = <<>>
    /\ nextPage' = None
    /\ pageCount' = 0
    /\ fetchLog' = <<>>
    /\ finalJobs' = <<>>

\* POST /run_pipeline: the handler is entered and calls scrape_all_jobs.
RunPipeline ==
    /\ ppc = "idle"
    /\ StartScrape
    /\ ppc' = "scrape"
    /\ alertsAtCall' = jobAlerts
    /\ UNCHANGED <<response, emailQueue, emailsSent, sendLog, alertsBefore>>
    /\ UNCHANGED <<matchVars, fetchVars, simVars, paceVars>>

\* scrape_all_jobs has returned no job: the response of lines 21-28.
PipelineNoJobs ==
    /\ ppc = "scrape"
    /\ spc = "done"
    /\ NoJobs(finalJobs)
    /\ response' = Completed(0, 0, 0)
    /\ ppc' = "done"
    /\ ScrapeFrameGone
    /\ UNCHANGED <<emailQueue, emailsSent, sendLog, alertsBefore,
                   alertsAtCall>>
    /\ UNCHANGED <<matchVars, fetchVars, simVars, paceVars>>

\* scrape_all_jobs has returned jobs: matcher.match_all_users(db, jobs).
PipelineMatch ==
    /\ ppc = "scrape"
    /\ spc = "done"
    /\ ~NoJobs(finalJobs)
    /\ StartMatchAllUsers(JobData(finalJobs))
    /\ ppc' = "match"
    /\ ScrapeFrameGone
    /\ UNCHANGED <<response, emailQueue, emailsSent, sendLog, alertsBefore,
                   alertsAtCall>>
    /\ UNCHANGED <<fetchVars, simVars, paceVars>>

\* match_all_users raised: `except Exception`, HTTP 500.
PipelineMatchRaised ==
    /\ ppc = "match"
    /\ mpc = "done"
    /\ outcome = "raised"
    /\ response' = Http500
    /\ ppc' = "done"
    /\ UNCHANGED <<emailQueue, emailsSent, sendLog, alertsBefore,
                   alertsAtCall>>
    /\ UNCHANGED <<scrapeVars, matchVars, fetchVars, simVars, paceVars>>

\* match_all_users returned: send_alerts_for_matches(db, matches) is entered.
PipelineSendAlerts ==
    /\ ppc = "match"
    /\ mpc = "done"
    /\ outcome = "returned"
    /\ ppc' = "email"
    /\ emailQueue' = DOMAIN allMatches
    /\ emailsSent' = 0
    /\ sendLog' = <<>>
    /\ alertsBefore' = jobAlerts
    /\ UNCHANGED <<response, alertsAtCall>>
    /\ UNCHANGED <<scrapeVars, matchVars, fetchVars, simVars, paceVars>>

\* Variant: the alert is looked up by the job's URL alone.
AlertsForAnyUser(u, url) ==
    {a \in BagToSet(jobAlerts) :
        \E j \in jobsTable : j.id = a.job_id /\ j.url = url}
\* db.query(JobAlert).filter(JobAlert.user_id == user_id,
\*                           JobAlert.job.has(url=job_data['url']))
AlertsFor(u, url) ==
    {a \in BagToSet(jobAlerts) :
        /\ a.user_id = u
        /\ \E j \in jobsTable : j.id = a.job_id /\ j.url = url}
\* Variant: every alert of the user is marked.
AlertsOfUser(u) == {a \in BagToSet(jobAlerts) : a.user_id = u}
\* the rows `.first()` finds for the matches of user u
AlertsToMark(u) ==
    {CHOOSE a \in AlertsFor(u, allMatches[u][i].job.url) : TRUE :
        i \in {k \in 1..Len(allMatches[u]) :
                 AlertsFor(u, allMatches[u][k].job.url) # {}}}
\* alert.email_sent = True; alert.sent_at = datetime.utcnow()
Sent(a) == [a EXCEPT !.email_sent = TRUE, !.sent_at = Some("utcnow")]
\* job_alerts after the rows `marked` are updated and committed; the table
\* holds no row twice (UniqueUserJob)
MarkSent(alerts, marked) ==
    LET rows == BagToSet(alerts)
        kept == {a \in rows : a \notin marked}
    IN  SetToBag(kept \cup {Sent(a) : a \in rows \cap marked})

\* send_alerts_for_matches: one iteration of `for user_id, user_matches in
\* matches.items()`: send_job_alert returns True or False; on True the alerts
\* of the user's matches are marked and committed and emails_sent counts.
SendAlert ==
    /\ ppc = "email"
    /\ emailQueue # {}
    /\ \E u \in emailQueue, ok \in BOOLEAN :
          /\ emailQueue' = emailQueue \ {u}
          /\ sendLog' = Append(sendLog, [user |-> u, ok |-> ok])
          /\ IF ok
             THEN /\ jobAlerts' = MarkSent(jobAlerts, AlertsToMark(u))
                  /\ emailsSent' = emailsSent + 1
             ELSE UNCHANGED <<jobAlerts, emailsSent>>
    /\ UNCHANGED <<ppc, response, alertsBefore, alertsAtCall>>
    /\ UNCHANGED <<cvEmbeddings, jobsTable, txJobs, txAlerts, mpc, mode,
                   pendingUsers, allMatches, userId, jobs, idx, cvEmbedding,
                   existingJobIds, matches, ret, outcome, exc, calls>>
    /\ UNCHANGED <<scrapeVars, fetchVars, simVars, paceVars>>

\* send_alerts_for_matches has returned: the response of lines 52-58.
PipelineRespond ==
    /\ ppc = "email"
    /\ emailQueue = {}
    /\ response' = Completed(Len(jobs), TotalMatches(allMatches), emailsSent)
    /\ ppc' = "done"
    /\ UNCHANGED <<emailQueue, emailsSent, sendLog, alertsBefore,
                   alertsAtCall>>
    /\ UNCHANGED <<scrapeVars, matchVars, fetchVars, simVars, paceVars>>

PipelineNext ==
    \/ RunPipeline
    \/ GoZambiaFetchPage
    \/ GoZambiaReturn
    \/ GreatZambiaFirstPage
    \/ GreatZambiaNextPage
    \/ GreatZambiaReturn
    \/ DedupAndReturn
    \/ PipelineNoJobs
    \/ PipelineMatch
    \/ NextUser
    \/ MatchCandidate
    \/ MatchCommit
    \/ ReturnAllMatches
    \/ PipelineMatchRaised
    \/ PipelineSendAlerts
    \/ SendAlert
    \/ PipelineRespond

\* POST /run_pipeline, taken from the return of scrape_all_jobs: it returned
\* the jobs js, not empty, and the handler calls match_all_users(db, jobs).
RunPipelineOnJobs ==
    /\ ppc = "idle"
    /\ \E js \in CandidateLists : ~NoJobs(js) /\ StartMatchAllUsers(js)
    /\ ppc' = "match"
    /\ alertsAtCall' = jobAlerts
    /\ UNCHANGED <<response, emailQueue, emailsSent, sendLog, alertsBefore>>
    /\ UNCHANGED <<scrapeVars, fetchVars, simVars, paceVars>>

\* The response (or the HTTP error) has gone out: the frames of the request
\* are gone, the store stays.
RequestOver ==
    /\ ppc = "done"
    /\ MatchFrameGone
    /\ ppc' = "idle"
    /\ response' = <<>>
    /\ emailQueue' = {}
    /\ emailsSent' = 0
    /\ sendLog' = <<>>
    /\ alertsBefore' = EmptyBag
    /\ alertsAtCall' = EmptyBag
    /\ UNCHANGED <<scrapeVars, fetchVars, simVars, paceVars>>

\* requests one after the other, each on the store the last one left
RunsNext ==
    \/ RunPipelineOnJobs
    \/ NextUser
    \/ MatchCandidate
    \/ MatchCommit
    \/ ReturnAllMatches
    \/ PipelineMatchRaised
    \/ PipelineSendAlerts
    \/ SendAlert
    \/ PipelineRespond
    \/ RequestOver

(***************************************************************************)
(* scraper.py: fetch_jobs of one scraper, as the site sees it: the         *)
(* requests (session.get) and the sleeps (time.sleep(self.delay)) in order *)
(***************************************************************************)
\* most cards of one listing page whose detail page is fetched
MaxDetails == 2
Get(k) == [op |-> "get", kind |-> k]
Sleep == [op |-> "sleep", kind |-> "delay"]
\* _fetch_job_description, called for d cards of a page one after the other:
\* time.sleep(self.delay), then session.get(url)
RECURSIVE DetailFetches(_)
DetailFetches(d) ==
    IF d = 0 THEN <<>> ELSE <<Sleep, Get("detail")>> \o DetailFetches(d - 1)
\* _fetch_page as the site sees it: the request raises, or the page is parsed
\* and the detail page is fetched for `details` of its cards; `full` says
\* whether it gave 20 jobs or more
PageVisits ==
    {[ok |-> FALSE, details |-> 0, full |-> FALSE]}
    \cup [ok : {TRUE}, details : 0..MaxDetails, full : BOOLEAN]
\* the requests and sleeps of one _fetch_page call
PageTimeline(v) ==
    IF v.ok THEN <<Get("listing")>> \o DetailFetches(v.details)
    ELSE <<Get("listing")>>

\* GoZambiaScraper().fetch_jobs(max_pages) is called.
CallGoZambiaFetchJobs ==
    /\ tpc = "idle"
    /\ tMaxPages' \in 0..MaxPagesBound
    /\ tPage' = 1
    /\ timeline' = <<>>
    /\ tpc' = "gozambia"
    /\ UNCHANGED <<tNextPage, tPageCount>>
    /\ UNCHANGED outsidePace

\* GoZambiaScraper.fetch_jobs: one iteration of the loop over the pages
\* (lines 35-48).
GoZambiaPageVisit ==
    /\ tpc = "gozambia"
    /\ tPage <= tMaxPages
    /\ \E v \in PageVisits :
          IF ~v.ok
          THEN /\ timeline' = timeline \o PageTimeline(v)
               /\ tPage' = tPage + 1
               /\ tpc' = tpc
          ELSE IF ~v.full
          THEN /\ timeline' = timeline \o PageTimeline(v)
               /\ tPage' = tPage
               /\ tpc' = "done"
          ELSE /\ timeline' = timeline \o PageTimeline(v) \o <<Sleep>>
               /\ tPage' = tPage + 1
               /\ tpc' = tpc
    /\ UNCHANGED <<tMaxPages, tNextPage, tPageCount>>
    /\ UNCHANGED outsidePace

\* GoZambiaScraper.fetch_jobs: the range is exhausted.
GoZambiaVisitsOver ==
    /\ tpc = "gozambia"
    /\ tPage > tMaxPages
    /\ tpc' = "done"
    /\ UNCHANGED <<tMaxPages, tPage, tNextPage, tPageCount, timeline>>
    /\ UNCHANGED outsidePace

\* GreatZambiaJobsScraper().fetch_jobs(max_pages) is called: the first page
\* and the lookup of its next link (lines 150-155). _get_next_page requests
\* the page again; a failure of that request gives None.
CallGreatZambiaFetchJobs ==
    /\ tpc = "idle"
    /\ tMaxPages' \in 0..MaxPagesBound
    /\ \E v \in PageVisits, next \in BOOLEAN :
          IF ~v.ok
          THEN /\ timeline' = PageTimeline(v)
               /\ tpc' = "done"
               /\ UNCHANGED <<tNextPage, tPageCount>>
          ELSE /\ timeline' = PageTimeline(v) \o <<Get("next")>>
               /\ tNextPage' = next
               /\ tPageCount' = 1
               /\ tpc' = "greatzambiajobs"
    /\ UNCHANGED tPage
    /\ UNCHANGED outsidePace

\* GreatZambiaJobsScraper.fetch_jobs: one iteration of the while loop
\* (lines 157-165).
GreatZambiaPageVisit ==
    /\ tpc = "greatzambiajobs"
    /\ tNextPage
    /\ tPageCount < tMaxPages
    /\ \E v \in PageVisits, next \in BOOLEAN :
          IF ~v.ok
          THEN /\ timeline' = timeline \o <<Sleep>> \o PageTimeline(v)
               /\ tpc' = "done"
               /\ UNCHANGED <<tNextPage, tPageCount>>
          ELSE /\ timeline' = timeline \o <<Sleep>> \o PageTimeline(v)
                                   \o <<Get("next")>>
               /\ tNextPage' = next
               /\ tPageCount' = tPageCount + 1
               /\ tpc' = tpc
    /\ UNCHANGED <<tMaxPages, tPage>>
    /\ UNCHANGED outsidePace

\* GreatZambiaJobsScraper.fetch_jobs: the while condition is false.
GreatZambiaVisitsOver ==
    /\ tpc = "greatzambiajobs"
    /\ ~(tNextPage /\ tPageCount < tMaxPages)
    /\ tpc' = "done"
    /\ UNCHANGED <<tMaxPages, tPage, tNextPage, tPageCount, timeline>>
    /\ UNCHANGED outsidePace

PaceNext ==
    \/ CallGoZambiaFetchJobs
    \/ GoZambiaPageVisit
    \/ GoZambiaVisitsOver
    \/ CallGreatZambiaFetchJobs
    \/ GreatZambiaPageVisit
    \/ GreatZambiaVisitsOver

(***************************************************************************)
(* Specifications                                                          *)
(***************************************************************************)
SimInit ==
    /\ cpc = "idle"
    /\ vec1 = <<>>
    /\ vec2 = <<>>
    /\ simValue = <<>>
    /\ isMatch = FALSE

PipeInit ==
    /\ ppc = "idle"
    /\ response = <<>>
    /\ emailQueue = {}
    /\ emailsSent = 0
    /\ sendLog = <<>>
    /\ alertsBefore = EmptyBag
    /\ alertsAtCall = EmptyBag

PaceInit ==
    /\ tpc = "idle"
    /\ tMaxPages = 0
    /\ tPage = 1
    /\ tNextPage = FALSE
    /\ tPageCount = 0
    /\ timeline = <<>>

\* jobs.embedding is nullable: a row of jobs without embedding, as another
\* writer of the table leaves it (the matcher always stores one)
JobWithoutEmbedding == [id |-> 1, url |-> Some("u/1"), embedding |-> None]
\* the tables of a store that holds such a row, or none
StoredInit ==
    /\ ScrapeInit
    /\ FetchInit
    /\ SimInit
    /\ PipeInit
    /\ PaceInit
    /\ cvEmbeddings = {}
    /\ jobsTable \in {{}, {JobWithoutEmbedding}}
    /\ jobAlerts = EmptyBag
    /\ txJobs = {}
    /\ txAlerts = EmptyBag
    /\ mpc = "idle"
    /\ mode = "single"
    /\ pendingUsers = {}
    /\ allMatches = <<>>
    /\ userId = 0
    /\ jobs = <<>>
    /\ idx = 1
    /\ cvEmbedding = <<>>
    /\ existingJobIds = {}
    /\ matches = <<>>
    /\ ret = <<>>
    /\ outcome = "none"
    /\ exc = "none"
    /\ calls = <<>>

Init ==
    /\ ScrapeInit
    /\ MatchInit
    /\ FetchInit
    /\ SimInit
    /\ PipeInit
    /\ PaceInit

\* scrape_all_jobs, on the store as constructed
SpecScrape == Init /\ [][ScrapeNext]_vars

\* the matcher, on the store as constructed
SpecMatch == Init /\ [][MatchNext]_vars

\* GoZambiaScraper._fetch_page on every page of up to MaxCards cards
SpecFetchPage == Init /\ [][FetchNext]_vars

\* compute_similarity on every pair of SimVectors
SpecSimilarity == Init /\ [][SimNext]_vars

\* one request POST /run_pipeline, on the store as constructed
SpecPipeline == Init /\ [][PipelineNext]_vars

\* the matcher, on a store that may hold a job without embedding
SpecStored == StoredInit /\ [][MatchNext]_vars

\* requests POST /run_pipeline one after the other, from the return of
\* scrape_all_jobs on
SpecRuns == Init /\ [][RunsNext]_vars

\* fetch_jobs of either scraper, its requests and sleeps
SpecPacing == Init /\ [][PaceNext]_vars

(***************************************************************************)
(* Properties of the matcher (SpecMatch)                                   *)
(***************************************************************************)
\* every row of job_alerts the session sees, committed or not
AllAlerts == jobAlerts (+) txAlerts
\* number of job_alerts rows for (u, j)
AlertCount(u, j) ==
    LET hit == {r \in BagToSet(AllAlerts) : r.user_id = u /\ r.job_id = j}
    IN  BagCardinality([r \in hit |-> AllAlerts[r]])
CandidateUrlsOf(js) == {js[i].url : i \in 1..Len(js)}
MatchedUrls(ms) == {ms[i].job.url : i \in 1..Len(ms)}

\* C1: for every user U and job J the store holds at most one job_alerts row
\* for (U, J), in every reachable state, however often and with whatever
\* candidate lists (a URL twice in one list included) the matcher has run.
C1_NoDuplicateAlerts ==
    \A u \in DOMAIN Users : \A j \in VisibleJobs : AlertCount(u, j.id) <= 1

\* C1's case: a pass whose candidate list carries one URL twice has run
\* against a store that already holds alerts.
C1_Witness ==
    /\ mpc = "done"
    /\ Len(jobs) >= 2
    /\ jobs[1].url = jobs[2].url
    /\ jobs[1].url # None
    /\ exc = "IntegrityError"
    /\ BagCardinality(jobAlerts) >= 1

\* C2: a persisted job J for which the user already had an alert when the
\* pass began is skipped when it comes up among the candidates: no provider
\* call is made for J in the pass, J is neither scored into `matches` nor
\* returned, and (user, J) still has exactly one alert.
C2_AlreadyAlertedSkipped ==
    mpc \in {"loop", "done"} =>
        \A j \in VisibleJobs :
            (j.id \in existingJobIds /\ ~NoCvText(userId)) =>
                /\ \A i \in 1..Len(calls) :
                      ~(calls[i].kind = "job" /\ calls[i].user = userId
                        /\ calls[i].url = j.url)
                /\ j.url \notin MatchedUrls(matches)
                /\ j.url \notin MatchedUrls(ret)
                /\ AlertCount(userId, j.id) = 1

\* C2's case: a direct call has gone through a candidate list that holds an
\* already alerted job, and has returned.
C2_Witness ==
    /\ mpc = "done"
    /\ mode = "single"
    /\ outcome = "returned"
    /\ \E j \in jobsTable :
          /\ j.id \in existingJobIds
          /\ j.url \in CandidateUrlsOf(jobs)
    /\ ret # <<>>

\* users without a row, and users whose cv_text is NULL
NullCvOrUnknown == {u \in CallerIds : u \notin DOMAIN Users \/ Users[u] = None}

\* C3: a call of match_jobs_for_user for an unknown user id or a user whose
\* cv_text is NULL returns [] in its first step, makes no provider call and
\* leaves cv_embeddings, jobs and job_alerts as they were.
C3_NoCvReturnsEmpty ==
    [][ (mpc = "idle" /\ mpc' # "idle" /\ mode' = "single"
         /\ userId' \in NullCvOrUnknown)
        => /\ mpc' = "done"
           /\ outcome' = "returned"
           /\ ret' = <<>>
           /\ calls' = <<>>
           /\ UNCHANGED <<cvEmbeddings, jobsTable, jobAlerts, txJobs, txAlerts>>
      ]_vars

\* C3's case: such a call, with candidates, has returned on a store that
\* holds jobs and alerts.
C3_Witness ==
    /\ mpc = "done"
    /\ mode = "single"
    /\ userId \in NullCvOrUnknown
    /\ jobs # <<>>
    /\ jobsTable # {}
    /\ BagCardinality(jobAlerts) >= 1

LastCall == calls[Len(calls)]

\* C4: a provider failure on one user's CV does not make match_all_users
\* fail: the call never ends by raising the embedding error of a CV.
C4_CvFailureIsolated ==
    ~(/\ mpc = "done"
      /\ mode = "all"
      /\ outcome = "raised"
      /\ exc = "EmbeddingError"
      /\ calls # <<>>
      /\ LastCall.kind = "cv")

\* C5: a provider failure on a new job skips that job only: a pass never
\* ends by raising the embedding error of a job.
C5_JobFailureSkipsJob ==
    ~(/\ mpc = "done"
      /\ outcome = "raised"
      /\ exc = "EmbeddingError"
      /\ calls # <<>>
      /\ LastCall.kind = "job")

(***************************************************************************)
(* Properties of the scraper (SpecScrape)                                  *)
(***************************************************************************)
\* the listing-page requests of one source, in order
PageFetches(src) ==
    SelectSeq(fetchLog, LAMBDA e : e.src = src /\ e.kind = "page")
\* every listing-page request of the source raised
AllPageFetchesFailed(src) ==
    \A i \in 1..Len(PageFetches(src)) : ~PageFetches(src)[i].ok
SourcesOf(js) == {js[i].source : i \in 1..Len(js)}
\* the URLs that count as one: not None, not ''
TruthyUrls(js) == {u \in Urls(js) : Truthy(u)}

\* C6: when every page request of one source raises, scrape_all_jobs still
\* returns, with no record of that source and with exactly the deduplicated
\* records of the other source; either source may be the failing one.
C6_SourceIsolation ==
    spc = "done" =>
        /\ AllPageFetchesFailed("gozambia") =>
              /\ finalJobs = Dedup(gzjJobs)
              /\ "gozambia" \notin SourcesOf(finalJobs)
        /\ AllPageFetchesFailed("greatzambiajobs") =>
              /\ finalJobs = Dedup(gozJobs)
              /\ "greatzambiajobs" \notin SourcesOf(finalJobs)

\* C6's case: GoZambia raised on both of its pages, GreatZambiaJobs was
\* fetched, and the run returned records.
C6_Witness ==
    /\ spc = "done"
    /\ Len(PageFetches("gozambia")) >= 2
    /\ AllPageFetchesFailed("gozambia")
    /\ Len(PageFetches("greatzambiajobs")) >= 1
    /\ ~AllPageFetchesFailed("greatzambiajobs")
    /\ Len(finalJobs) >= 2

\* C6's other case: GreatZambiaJobs raised, GoZambia's records are returned.
C6_WitnessOther ==
    /\ spc = "done"
    /\ Len(PageFetches("greatzambiajobs")) >= 1
    /\ AllPageFetchesFailed("greatzambiajobs")
    /\ Len(finalJobs) >= 2

\* C7: in each scraper the first failed page request ends the pagination: no
\* listing page of a source is requested after one of its page requests
\* raised.
C7_FailureStopsPagination ==
    \A src \in Sources :
        \A i \in 1..Len(PageFetches(src)) :
            ~PageFetches(src)[i].ok => i = Len(PageFetches(src))

\* C8: every record scrape_all_jobs returns has a non-empty URL.
C8_NoUrlExcluded ==
    spc = "done" => \A i \in 1..Len(finalJobs) : Truthy(finalJobs[i].url)

\* C9: the returned list has one record per URL of the input: no two
\* returned records share a URL, every URL of the flattened input is the URL
\* of a returned record, and the record kept for a URL is the last one of the
\* input with that URL.
C9_OnePerUrl ==
    spc = "done" =>
        LET all_jobs == Flatten(gozJobs, gzjJobs)
        IN  /\ \A i, j \in 1..Len(finalJobs) :
                  (Truthy(finalJobs[i].url) /\ finalJobs[i].url = finalJobs[j].url)
                      => i = j
            /\ TruthyUrls(all_jobs) \subseteq TruthyUrls(finalJobs)
            /\ \A i \in 1..Len(finalJobs) :
                  Truthy(finalJobs[i].url) =>
                      \E k \in 1..Len(all_jobs) :
                          /\ all_jobs[k] = finalJobs[i]
                          /\ \A m \in (k + 1)..Len(all_jobs) :
                                all_jobs[m].url # finalJobs[i].url

\* merge(a): the deduplication applied to what the sources have returned
Merged == Dedup(Flatten(gozJobs, gzjJobs))

\* C10: deduplication is idempotent by URL set: for the records a the sources
\* returned, merge(merge(a) ++ merge(a)) has the URLs of merge(a).
C10_DedupIdempotent ==
    Urls(Dedup(Merged \o Merged)) = Urls(Merged)

\* C10's case: the run has returned merge(a) for an input in which both
\* sources listed one URL, and records remain.
C10_Witness ==
    /\ spc = "done"
    /\ finalJobs = Merged
    /\ \E i, j \in 1..Len(Flatten(gozJobs, gzjJobs)) :
          /\ i < j
          /\ Truthy(Flatten(gozJobs, gzjJobs)[i].url)
          /\ Flatten(gozJobs, gzjJobs)[i].url = Flatten(gozJobs, gzjJobs)[j].url
          /\ Flatten(gozJobs, gzjJobs)[i].source # Flatten(gozJobs, gzjJobs)[j].source
    /\ Len(finalJobs) >= 2

\* the page numbers GoZambia requested, in order
GozPagesRequested ==
    [i \in 1..Len(PageFetches("gozambia")) |-> PageFetches("gozambia")[i].page]

\* C14: a GoZambia run in which every page request succeeds requests the
\* pages 1, 2, ..., max_pages in that order, whatever number of listings the
\* pages hold.
C14_AllPagesUpToMax ==
    (spc \notin {"idle", "gozambia"} /\ ~(\E i \in 1..Len(PageFetches("gozambia")) :
                                            ~PageFetches("gozambia")[i].ok))
        => GozPagesRequested = [i \in 1..maxPages["gozambia"] |-> i]

\* C15: no scraper fetches more listing pages in one fetch_jobs run than its
\* max_pages, for every max_pages >= 0, next links that lead back to a page
\* already seen included.
C15_PagesWithinBound ==
    \A src \in Sources :
        Len(SelectSeq(PageFetches(src), LAMBDA e : e.ok)) <= maxPages[src]

\* C16: every record a scraper's fetch_jobs holds for output has a title and
\* a non-empty URL.
C16_RecordsHaveTitleAndUrl ==
    \A i \in 1..Len(gozJobs \o gzjJobs) :
        /\ (gozJobs \o gzjJobs)[i].title # ""
        /\ Truthy((gozJobs \o gzjJobs)[i].url)

(***************************************************************************)
(* Properties of _fetch_page (SpecFetchPage)                               *)
(***************************************************************************)
\* a card without title element, or one on which parsing raises
Malformed(card) ==
    \/ ~card.title_elem
    \/ card.link /\ card.href = Some(BadHref)
WellFormedCards == SelectSeq(job_cards, LAMBDA c : ~Malformed(c))

\* C17: for a page of N cards of which k are malformed, _fetch_page returns
\* exactly the N-k records of the well-formed cards, in their order, and no
\* exception leaves the loop over the cards: the only exception of
\* _fetch_page is the one of the request, before any card is parsed.
C17_GracefulPageParsing ==
    /\ fpc = "raised" => cardIdx = 0
    /\ fpc = "done" =>
          /\ Len(pageJobs) = Len(job_cards) - Len(SelectSeq(job_cards, Malformed))
          /\ \A i \in 1..Len(WellFormedCards) :
                /\ pageJobs[i].title = WellFormedCards[i].text
                /\ pageJobs[i].company = WellFormedCards[i].company[1]

\* C17's case: a page of 5 cards of which exactly one has no title element
\* has been parsed into 4 records.
C17_Witness ==
    /\ fpc = "done"
    /\ Len(job_cards) = 5
    /\ Cardinality({i \in 1..5 : ~job_cards[i].title_elem}) = 1
    /\ \A i \in 1..5 : job_cards[i].href # Some(BadHref)
    /\ Len(pageJobs) = 4

(***************************************************************************)
(* Properties of the matcher, continued (SpecMatch)                        *)
(***************************************************************************)
\* the rows of jobs with the URL of a candidate, among the rows `rows`
RowsWithUrl(rows, url) == {j \in rows : j.url = url}
\* the step is an iteration of the loop that reaches line 119 and does not
\* raise: the candidate is not skipped and its row has an embedding
ScoringStep ==
    /\ mpc = "loop"
    /\ idx <= Len(jobs)
    /\ mpc' = "loop"
    /\ ~AlreadyAlerted(RowsWithUrl(VisibleJobs, jobs[idx].url), existingJobIds)
    /\ \E j \in RowsWithUrl(jobsTable' \cup txJobs', jobs[idx].url) :
          j.embedding # None
\* the row of the candidate scored in a ScoringStep
ScoredRow == CHOOSE j \in RowsWithUrl(jobsTable' \cup txJobs', jobs[idx].url) : TRUE
\* score >= 0.7, on the floats themselves
ScoreReachesThreshold(score) ==
    /\ ~score.neg
    /\ score.sig # <<>>
    /\ \/ score.exp > similarity_threshold.exp
       \/ /\ score.exp = similarity_threshold.exp
          /\ BGeq[score.sig, similarity_threshold.sig]

\* C12: an iteration of match_jobs_for_user that scores a job appends
\* (job, score) to the matches and adds a job_alerts row with
\* email_sent = False when the score is >= the threshold, the score equal to
\* the threshold included, and appends and adds nothing when it is below.
C12_ThresholdInclusive ==
    [][ ScoringStep =>
          LET score == SimilarityOf[cvEmbedding][ScoredRow.embedding[1]]
              alert == [user_id |-> userId, job_id |-> ScoredRow.id,
                        match_score |-> score, email_sent |-> FALSE,
                        sent_at |-> None]
          IN  IF ScoreReachesThreshold(score)
              THEN /\ matches' = Append(matches, [job |-> jobs[idx], score |-> score])
                   /\ txAlerts' = txAlerts (+) SetToBag({alert})
              ELSE /\ matches' = matches
                   /\ txAlerts' = txAlerts
      ]_vars

\* C12's case: a pass over two candidates has returned exactly one match,
\* whose score is the threshold itself; the other candidate was scored below
\* it; the match has its job_alerts row.
C12_Witness ==
    /\ mpc = "done"
    /\ mode = "single"
    /\ outcome = "returned"
    /\ Len(jobs) = 2
    /\ Len(ret) = 1
    /\ ret[1].score = similarity_threshold
    /\ \A i \in 1..2 : \E j \in jobsTable :
          /\ j.url = jobs[i].url
          /\ j.embedding # None
          /\ (jobs[i] # ret[1].job) =>
                ~ScoreReachesThreshold(SimilarityOf[cvEmbedding][j.embedding[1]])
    /\ \E a \in BagToSet(jobAlerts) :
          /\ a.user_id = userId
          /\ a.match_score = similarity_threshold
          /\ ~a.email_sent

(***************************************************************************)
(* Properties of compute_similarity (SpecSimilarity)                       *)
(***************************************************************************)
\* the float 1.0
FOne == FInt[1]
ZeroNorm(v) == Dot(v, v) = 0

\* C13: compute_similarity returns 1.0 for a non-zero vector and itself,
\* returns 0.0 when either vector has zero norm, and for the embeddings
\* [1,0] against [1,0] and [0,1] with threshold 0.7 gives 1.0 (a match) and
\* 0.0 (no match).
C13_CosineValues ==
    /\ cpc # "idle" =>
          /\ (vec1 = vec2 /\ ~ZeroNorm(vec1)) => simValue = FOne
          /\ (ZeroNorm(vec1) \/ ZeroNorm(vec2)) => simValue = FZero
    /\ (cpc = "compared" /\ vec1 = <<1, 0>>) =>
          /\ vec2 = <<1, 0>> => (simValue = FOne /\ isMatch)
          /\ vec2 = <<0, 1>> => (simValue = FZero /\ ~isMatch)

\* the step makes a provider call for a CV
CvCallStep ==
    /\ calls' # calls
    /\ calls' # <<>>
    /\ calls'[Len(calls')].kind = "cv"
\* the step takes a pass of match_jobs_for_user into its loop
PassEntersLoop == mpc # "loop" /\ mpc' = "loop"

\* C19: over any sequence of calls, the provider is called for a user's CV
\* only in a step before which cv_embeddings held no row of that user; the
\* table never holds two rows of one user; a row, once stored, stays as it
\* is; and a pass that finds a row works with the stored embedding.
C19_CvEmbeddingCached ==
    [][ /\ CvCallStep =>
              {r \in cvEmbeddings : r.user_id = calls'[Len(calls')].user} = {}
        /\ \A u \in DOMAIN Users :
              Cardinality({r \in cvEmbeddings' : r.user_id = u}) <= 1
        /\ cvEmbeddings \subseteq cvEmbeddings'
        /\ (PassEntersLoop /\ ~CvCallStep) =>
              [user_id |-> userId', embedding |-> cvEmbedding'] \in cvEmbeddings
      ]_vars

\* C19's case: a direct call for a user whose CV embedding an earlier call
\* had stored has gone through its candidates and returned without a
\* provider call for the CV.
C19_Witness ==
    /\ mpc = "done"
    /\ mode = "single"
    /\ outcome = "returned"
    /\ jobs # <<>>
    /\ [user_id |-> userId, embedding |-> cvEmbedding] \in cvEmbeddings
    /\ \A i \in 1..Len(calls) : calls[i].kind # "cv"
    /\ Cardinality(cvEmbeddings) >= 2

\* every job_alerts row of `alerts` has its jobs row in `rows`
AlertsReferTo(alerts, rows) ==
    \A a \in BagToSet(alerts) : \E j \in rows : j.id = a.job_id
\* the step ends a pass with an exception
PassAborts == outcome # "raised" /\ outcome' = "raised"

\* C20: every committed job_alerts row refers to a committed jobs row;
\* outside a pass nothing is pending; the committed jobs and job_alerts
\* change only in the commit that ends a pass, which adds all the rows the
\* pass created at once; and a pass that aborts leaves the committed rows as
\* they were and discards the rows it created.
C20_AtomicPass ==
    [][ /\ AlertsReferTo(jobAlerts', jobsTable')
        /\ mpc' # "loop" => (txJobs' = {} /\ txAlerts' = EmptyBag)
        /\ (jobsTable' # jobsTable \/ jobAlerts' # jobAlerts) =>
              /\ mpc = "loop"
              /\ idx > Len(jobs)
              /\ outcome' # "raised"
              /\ jobsTable' = jobsTable \cup txJobs
              /\ jobAlerts' = jobAlerts (+) txAlerts
        /\ PassAborts =>
              /\ jobsTable' = jobsTable
              /\ jobAlerts' = jobAlerts
      ]_vars

\* C20's case: against a store that holds jobs and alerts, a pass has
\* embedded and added a new job, then failed on the provider call of a later
\* candidate; the new job is not among the committed rows.
C20_Witness ==
    /\ mpc = "done"
    /\ mode = "single"
    /\ outcome = "raised"
    /\ exc = "EmbeddingError"
    /\ Len(calls) >= 2
    /\ calls[Len(calls)].kind = "job"
    /\ \E i \in 1..(Len(calls) - 1) :
          /\ calls[i].kind = "job"
          /\ calls[i].ok
          /\ calls[i].url # None
          /\ \A j \in jobsTable : j.url # calls[i].url
    /\ jobsTable # {}
    /\ BagCardinality(jobAlerts) >= 1

(***************************************************************************)
(* Properties of run_pipeline (SpecPipeline)                               *)
(***************************************************************************)
\* the alert step has been entered: match_all_users returned
InAlertStep == ppc = "email" \/ (ppc = "done" /\ outcome = "returned")
\* the users send_job_alert returned True for, and False for, so far
ConfirmedUsers == {sendLog[i].user : i \in {k \in 1..Len(sendLog) : sendLog[k].ok}}
FailedUsers == {sendLog[i].user : i \in {k \in 1..Len(sendLog) : ~sendLog[k].ok}}
\* the job_alerts rows of `alerts` for the jobs matched to user u
MatchRecordsOf(alerts, u) ==
    IF u \notin DOMAIN allMatches THEN {}
    ELSE {a \in BagToSet(alerts) :
            /\ a.user_id = u
            /\ \E i \in 1..Len(allMatches[u]), j \in jobsTable :
                  j.url = allMatches[u][i].job.url /\ j.id = a.job_id}
\* the rows of user u, with their multiplicities
RowsOfUser(alerts, u) ==
    LET rows == {a \in BagToSet(alerts) : a.user_id = u}
    IN  [a \in rows |-> CopiesIn(a, alerts)]

\* C11: in and after the alert step, for a user whose send_job_alert returned
\* True every job_alerts row of that user's matched jobs has email_sent = True
\* and sent_at set; for every other user (send failed, not yet iterated, or
\* without matches) the job_alerts rows are exactly those the step found; and
\* emails_sent counts exactly the users whose send returned True.
C11_FlagsOnlyAfterConfirmedSend ==
    InAlertStep =>
        /\ \A u \in ConfirmedUsers :
              \A a \in MatchRecordsOf(jobAlerts, u) :
                  a.email_sent /\ a.sent_at # None
        /\ \A u \in DOMAIN Users \ ConfirmedUsers :
              RowsOfUser(jobAlerts, u) = RowsOfUser(alertsBefore, u)
        /\ \A a \in BagToSet(jobAlerts) :
              (a.email_sent \/ a.sent_at # None) =>
                  \/ a.user_id \in ConfirmedUsers
                  \/ CopiesIn(a, alertsBefore) = CopiesIn(a, jobAlerts)
        /\ emailsSent = Cardinality(ConfirmedUsers)
        /\ ConfirmedUsers \cap FailedUsers = {}
        /\ (ppc = "done" => response.emails_sent = Cardinality(ConfirmedUsers))

\* C11's case: the alert step is over; the send to one user succeeded and
\* the send to another user failed, and both have an alert for the same job.
C11_Witness ==
    /\ ppc = "done"
    /\ outcome = "returned"
    /\ \E u \in ConfirmedUsers, v \in FailedUsers :
          \E a \in MatchRecordsOf(jobAlerts, u), b \in MatchRecordsOf(jobAlerts, v) :
              /\ a.job_id = b.job_id
              /\ a.email_sent
              /\ ~b.email_sent

\* the store as constructed: nothing was written
StoreUntouched ==
    /\ cvEmbeddings = {}
    /\ jobsTable = {}
    /\ jobAlerts = EmptyBag
    /\ txJobs = {}
    /\ txAlerts = EmptyBag
\* neither match_all_users nor send_alerts_for_matches was entered
NoMatchingNoEmail ==
    /\ mpc = "idle"
    /\ calls = <<>>
    /\ outcome = "none"
    /\ sendLog = <<>>
    /\ emailsSent = 0
\* scrape_all_jobs has returned the empty list to run_pipeline
ZeroJobsFetched == ppc = "scrape" /\ spc = "done" /\ finalJobs = <<>>

\* C18: while run_pipeline is in the scrape step nothing is written to the
\* store and neither matching nor email sending is entered; when
\* scrape_all_jobs has returned no job, the next step of the handler is its
\* last one: it responds status "completed" with jobs_fetched =
\* matches_found = emails_sent = 0, and still has not written to the store,
\* matched or sent.
C18_ZeroJobsCompletes ==
    /\ [](ppc \in {"idle", "scrape"} => StoreUntouched /\ NoMatchingNoEmail)
    /\ [][ZeroJobsFetched =>
            /\ ppc' = "done"
            /\ response' = [status |-> "completed", jobs_fetched |-> 0,
                            matches_found |-> 0, emails_sent |-> 0]
            /\ StoreUntouched'
            /\ NoMatchingNoEmail']_vars

\* C18's case: the handler has responded after a scrape that returned no job.
C18_Witness ==
    /\ ppc = "done"
    /\ response # <<>>
    /\ response.status = "completed"
    /\ response.jobs_fetched = 0
    /\ outcome = "none"
    /\ StoreUntouched

(***************************************************************************)
(* Properties of the pacing of the scrapers (SpecPacing)                   *)
(***************************************************************************)
\* C21: in one run of a scraper's fetch_jobs no two requests (listing page,
\* next-page lookup, detail page) follow one another without a
\* time.sleep(self.delay) between them.
C21_SleepBetweenFetches ==
    \A i \in 1..(Len(timeline) - 1) :
        ~(timeline[i].op = "get" /\ timeline[i + 1].op = "get")

(***************************************************************************)
(* Properties of successive requests (SpecRuns)                            *)
(***************************************************************************)
\* a job_alerts row for (u, the job with this URL) existed when the request
\* began
AlertedAtCall(u, url) ==
    \E a \in BagToSet(alertsAtCall), j \in jobsTable :
        a.user_id = u /\ a.job_id = j.id /\ j.url = url
\* the URL of the job an alert is for
UrlOfAlert(a) == (CHOOSE j \in jobsTable : j.id = a.job_id).url

\* C22: in every request, a job for which (U, J) had a job_alerts row when
\* the request began, sent or not, is in no list match_jobs_for_user builds
\* or match_all_users returns for U; and every row that was unsent when the
\* request began is still in job_alerts, unsent, whatever emails the request
\* sends. Each request begins on the store the last one left, so a row the
\* alert step of its own run did not mark stays email_sent = False for ever.
C22_NeverMatchedAgain ==
    ppc \in {"match", "email", "done"} =>
        /\ \A u \in DOMAIN allMatches : \A i \in 1..Len(allMatches[u]) :
              ~AlertedAtCall(u, allMatches[u][i].job.url)
        /\ \A i \in 1..Len(matches) : ~AlertedAtCall(userId, matches[i].job.url)
        /\ \A a \in BagToSet(alertsAtCall) :
              ~a.email_sent =>
                  /\ a.sent_at = None
                  /\ CopiesIn(a, jobAlerts) = CopiesIn(a, alertsAtCall)

\* C22's case: a request has ended whose candidates held a job J1 for which U
\* had an unsent alert from an earlier request and a job for which V had a
\* sent one; U was emailed in this request (about another job) and the alert
\* for (U, J1) is still unsent.
C22_Witness ==
    /\ ppc = "done"
    /\ outcome = "returned"
    /\ \E a, b \in BagToSet(alertsAtCall) :
          /\ ~a.email_sent
          /\ a.user_id \in ConfirmedUsers
          /\ UrlOfAlert(a) \in CandidateUrlsOf(jobs)
          /\ CopiesIn(a, jobAlerts) = 1
          /\ b.email_sent
          /\ UrlOfAlert(b) \in CandidateUrlsOf(jobs)

(***************************************************************************)
(* Properties of the matcher on stored jobs (SpecStored)                   *)
(***************************************************************************)
\* the committed rows of jobs with this URL
Persisted(url) == {j \in jobsTable : j.url = url}
\* the iteration of `for job_data in jobs` about to run has a candidate whose
\* URL is persisted
PersistedCandidate ==
    /\ mpc = "loop"
    /\ idx <= Len(jobs)
    /\ Persisted(jobs[idx].url) # {}
\* the persisted row of that candidate
PersistedRow == CHOOSE j \in Persisted(jobs[idx].url) : TRUE
\* URLs of the persisted jobs without embedding
UrlsWithoutEmbedding == {j.url : j \in {r \in jobsTable : r.embedding = None}}
\* ids of the persisted jobs without embedding
IdsWithoutEmbedding == {j.id : j \in {r \in jobsTable : r.embedding = None}}
\* no match and no job_alerts row is for a job without embedding
NothingForJobsWithoutEmbedding ==
    /\ \A a \in BagToSet(AllAlerts) : a.job_id \notin IdsWithoutEmbedding
    /\ MatchedUrls(matches) \cap UrlsWithoutEmbedding = {}
    /\ MatchedUrls(ret) \cap UrlsWithoutEmbedding = {}
    /\ \A u \in DOMAIN allMatches :
          MatchedUrls(allMatches[u]) \cap UrlsWithoutEmbedding = {}

\* C23: no step of the matcher changes or removes a committed row of jobs.
\* An iteration for a candidate whose URL is persisted makes no provider
\* call and adds no row of jobs; when it appends a match, the score is
\* compute_similarity of the CV embedding and the stored embedding; when the
\* stored embedding is missing it appends no match and adds no alert. In
\* every state, after any number of passes, no match and no job_alerts row
\* is for a job whose stored embedding is missing.
C23_PersistedJobsUntouched ==
    /\ []NothingForJobsWithoutEmbedding
    /\ [][/\ jobsTable \subseteq jobsTable'
          /\ PersistedCandidate =>
                /\ calls' = calls
                /\ txJobs' = txJobs
                /\ Len(matches') > Len(matches) =>
                      /\ PersistedRow.embedding # None
                      /\ matches'[Len(matches')].score =
                            SimilarityOf[cvEmbedding][PersistedRow.embedding[1]]
                /\ PersistedRow.embedding = None =>
                      /\ matches' = matches
                      /\ txAlerts' = txAlerts
                      /\ idx' = idx + 1]_vars

\* C23's case: a pass has returned whose candidates held a persisted job
\* without embedding and a persisted job with one; the second was matched
\* without any provider call for a job, the first was not.
C23_Witness ==
    /\ mpc = "done"
    /\ outcome = "returned"
    /\ \A i \in 1..Len(calls) : calls[i].kind # "job"
    /\ \E j, k \in jobsTable :
          /\ j.embedding = None
          /\ j.url \in CandidateUrlsOf(jobs)
          /\ k.embedding # None
          /\ k.url \in MatchedUrls(ret)

====
